---- MODULE Spec2Model ----
(***************************************************************************)
(* TopoSorter (src/TopoSorter.py): fetch the relay list, measure one       *)
(* connect() time per relay, sort the frame by RTT and save the first      *)
(* NB_ROWS rows to topology.yaml.                                          *)
(*                                                                         *)
(* Times are whole seconds (d = 255.0 is 255).  The columns 'continent'    *)
(* and 'state' of the frame are never read by the program and are left     *)
(* out of the rows.                                                        *)
(***************************************************************************)
EXTENDS Integers, Sequences, FiniteSets, TLC

\* ---------------------------------------------------------------- constants
NB_ROWS == 4
Sentinel == 255
HTTP_OK == 200

\* ------------------------------------------------------------------- bounds
MaxLen == 3
MaxRows == 5

Latencies == {1, 2}
Statuses == {200, 203, 404}

\* A cell that pandas filled because the record had no such key.
NaNAddr == "nan"
NaN == -1
Int64 == "int64"
Float64 == "float64"

\* ------------------------------------------------------- the remote document
Rec(keys, addr, port) == [keys |-> keys, addr |-> addr, port |-> port]

RelayA == Rec({"addr", "port"}, "h1", 3001)
RelayB == Rec({"addr", "port"}, "h2", 3002)
NoAddr == Rec({"port"}, "", 3001)
NoPort == Rec({"addr"}, "h3", 0)

Records == {RelayA, RelayB, NoAddr, NoPort}

WellFormed(rec) == rec.keys = {"addr", "port"}

SeqsUpTo(S, n) == UNION {[1..k -> S] : k \in 0..n}

\* A long list of well-formed relays, with repeated (addr, port) pairs.
Roster(n) == [k \in 1..n |-> IF k % 3 = 0 THEN RelayB ELSE RelayA]

Response(raises, status, body, p) ==
    [raises |-> raises, status |-> status, body |-> body, Producers |-> p]

\* ------------------------------------------------ outcomes of s.connect()
Connected(ms) == [exc |-> "none", elapsed |-> ms]
Raised(e) == [exc |-> e, elapsed |-> 0]

Outcomes == {Connected(ms) : ms \in Latencies}
            \cup {Raised("ConnectionRefusedError"), Raised("timeout")}

NarrowNets == {{Connected(ms) : ms \in Latencies},
               {Connected(1), Raised("ConnectionRefusedError")}}

\* Python's exception hierarchy, as far as the program's except clauses
\* tell the classes apart.
OSErrors == {"ConnectionRefusedError", "timeout", "gaierror"}
Exceptions == OSErrors \cup {"TypeError", "HTTPError", "RequestsConnectionError",
                             "ConnectionError", "JSONDecodeError", "KeyError",
                             "NameError", "UnboundLocalError"}

VARIABLES pc, remote, net, connected, df, fetched, probes,
          stdout, stderr, file, exitStatus

vars == <<pc, remote, net, connected, df, fetched, probes,
          stdout, stderr, file, exitStatus>>

\* ------------------------------------------------------------- do_http_get
\* r.raise_for_status() raises HTTPError for 4xx and 5xx only.
raise_for_status(status) == status >= 400 /\ status < 600

\* Returns the response unless an exception escapes.  An HTTPError is
\* printed and the response is returned all the same.  The builtin
\* ConnectionError is printed, then `return r` finds r unbound.
do_http_get(rem) ==
    IF rem.raises = "RequestsConnectionError"
    THEN [exc |-> "RequestsConnectionError", out |-> <<>>]
    ELSE IF rem.raises = "ConnectionError"
    THEN [exc |-> "UnboundLocalError", out |-> << <<"ConnectionError", "">> >>]
    ELSE IF rem.status # HTTP_OK /\ raise_for_status(rem.status)
    THEN [exc |-> "none", out |-> << <<"HTTPError", "">> >>]
    ELSE [exc |-> "none", out |-> <<>>]

\* ------------------------------------------------------------ pd.DataFrame
\* One row per record, labelled 0..n-1.  A missing key gives NaN; one NaN in
\* the port column makes the whole column float64.
DataFrame(p) ==
    LET floatPorts == \E k \in 1..Len(p) : "port" \notin p[k].keys
    IN  [k \in 1..Len(p) |->
            [Index |-> k - 1,
             addr  |-> IF "addr" \in p[k].keys THEN p[k].addr ELSE NaNAddr,
             port  |-> [dtype |-> IF floatPorts THEN Float64 ELSE Int64,
                        val   |-> IF "port" \in p[k].keys THEN p[k].port ELSE NaN],
             RTT   |-> NaN]]

\* A reading of the document that takes a missing "Producers" for an empty list.
get_dataframe_lenient(rem) ==
    LET g == do_http_get(rem)
    IN  IF g.exc # "none" THEN [exc |-> g.exc, out |-> g.out, df |-> <<>>]
        ELSE IF rem.body = "text"
        THEN [exc |-> "JSONDecodeError", out |-> g.out, df |-> <<>>]
        ELSE [exc |-> "none", out |-> g.out, df |-> DataFrame(rem.Producers)]

\* ----------------------------------------------------------- get_dataframe
get_dataframe(rem) ==
    LET g == do_http_get(rem)
    IN  IF g.exc # "none" THEN [exc |-> g.exc, out |-> g.out, df |-> <<>>]
        ELSE IF rem.body = "text"
        THEN [exc |-> "JSONDecodeError", out |-> g.out, df |-> <<>>]
        ELSE IF rem.body = "object"
        THEN [exc |-> "KeyError", out |-> g.out, df |-> <<>>]
        ELSE [exc |-> "none", out |-> g.out, df |-> DataFrame(rem.Producers)]

\* ----------------------------------------------------------------- get_rtt
\* s.connect((host, port)): a host that is not a string or a port that is
\* not an integer raises TypeError before anything is sent.
connect(host, port, o) ==
    IF host = NaNAddr \/ port.dtype # Int64 THEN Raised("TypeError") ELSE o

\* The except chain without its last clause.
ExceptClauseNoCatchAll(exc) ==
    IF exc = "ConnectionRefusedError" THEN 1
    ELSE IF exc \in OSErrors THEN 2
    ELSE 0

\* The except clause that catches exc: 1 ConnectionRefusedError, 2 IOError,
\* 3 Exception, 0 none of them.
ExceptClause(exc) ==
    IF exc = "ConnectionRefusedError" THEN 1
    ELSE IF exc \in OSErrors THEN 2
    ELSE IF exc \in Exceptions THEN 3
    ELSE 0

Diagnostic(clause) ==
    IF clause = 1 THEN "refused"
    ELSE IF clause = 2 THEN "NXDOMAIN OR timeout"
    ELSE "Unknown exception"

get_rtt(host, port, o) ==
    LET c == connect(host, port, o)
        clause == ExceptClause(c.exc)
        check == << <<"Check RTT", host>> >>
    IN  IF c.exc = "none"
        THEN [d |-> c.elapsed, out |-> check, escaped |-> "none"]
        ELSE IF clause = 0
        THEN [d |-> Sentinel, out |-> check, escaped |-> c.exc]
        ELSE [d |-> Sentinel, out |-> Append(check, <<Diagnostic(clause), host>>),
              escaped |-> "none"]

\* ------------------------------------------------------------- environments
Bodies(n) == {Response("none", s, "topology", p) :
                 s \in Statuses, p \in SeqsUpTo(Records, n)}
             \cup {Response("none", s, b, <<>>) :
                     s \in Statuses, b \in {"text", "object"}}
             \cup {Response(e, 0, "text", <<>>) :
                     e \in {"RequestsConnectionError", "ConnectionError"}}

LongBodies == {Response("none", HTTP_OK, "topology", Roster(n)) : n \in NB_ROWS..MaxRows}

NoFile == [written |-> FALSE, Producers |-> <<>>]

Init ==
    /\ pc = "main"
    /\ \/ remote \in Bodies(MaxLen) /\ net = Outcomes
       \/ remote \in LongBodies /\ net \in NarrowNets
    /\ connected = "unknown"
    /\ df = <<>>
    /\ fetched = <<>>
    /\ probes = <<>>
    /\ stdout = <<>>
    /\ stderr = <<>>
    /\ file = NoFile
    /\ exitStatus = 0

\* An uncaught exception: traceback on the error stream, exit status 1.
Abort(exc) ==
    /\ pc' = "exit"
    /\ stderr' = Append(stderr, <<"Traceback", exc>>)
    /\ exitStatus' = 1

\* ------------------------------------------------------------ is_connected
is_connected_true ==
    /\ pc = "main"
    /\ connected' = "yes"
    /\ pc' = "get_dataframe"
    /\ UNCHANGED <<remote, net, df, fetched, probes, stdout, stderr, file, exitStatus>>

\* main, lines 184-186: the module never imports sys, so sys.stderr.write
\* raises NameError before the message is written and before sys.exit(-1).
is_connected_false ==
    /\ pc = "main"
    /\ connected' = "no"
    /\ Abort("NameError")
    /\ UNCHANGED <<remote, net, df, fetched, probes, stdout, file>>

\* ---------------------------------------------------- get_data, line 134
get_dataframe_returns ==
    /\ pc = "get_dataframe"
    /\ LET g == get_dataframe(remote)
       IN  /\ g.exc = "none"
           /\ df' = g.df
           /\ fetched' = g.df
           /\ stdout' = stdout \o g.out
           /\ pc' = IF Len(g.df) = 0 THEN "sort_data" ELSE "get_data"
    /\ UNCHANGED <<remote, net, connected, probes, stderr, file, exitStatus>>

get_dataframe_raises ==
    /\ pc = "get_dataframe"
    /\ LET g == get_dataframe(remote)
       IN  /\ g.exc # "none"
           /\ stdout' = stdout \o g.out
           /\ Abort(g.exc)
    /\ UNCHANGED <<remote, net, connected, df, fetched, probes, file>>

\* ------------------------------------------------ get_data, lines 137-139
\* The row found by looking the tuple's address and port up in the frame.
RTTLabelByAddr(frame, k) ==
    LET same == {j \in 1..Len(frame) : /\ frame[j].addr = frame[k].addr
                                        /\ frame[j].port = frame[k].port}
    IN  frame[CHOOSE j \in same : \A i \in same : j <= i].Index

\* The label of the row that receives the RTT of the k-th tuple.
RTTLabel(frame, k) == frame[k].Index

SetAt(frame, label, d) ==
    [k \in 1..Len(frame) |->
        IF frame[k].Index = label THEN [frame[k] EXCEPT !.RTT = d] ELSE frame[k]]

get_data_row ==
    /\ pc = "get_data"
    /\ LET k == Len(probes) + 1
           row == df[k]
       IN  \E o \in net :
             LET g == get_rtt(row.addr, row.port, o)
                 label == RTTLabel(df, k)
             IN  /\ probes' = Append(probes, [tuple |-> row.Index, host |-> row.addr,
                                              port |-> row.port, exc |-> connect(row.addr, row.port, o).exc,
                                              d |-> g.d, label |-> label])
                 /\ stdout' = stdout \o g.out
                 /\ IF g.escaped # "none"
                    THEN /\ Abort(g.escaped)
                         /\ df' = df
                    ELSE /\ df' = SetAt(df, label, g.d)
                         /\ pc' = IF k = Len(df) THEN "sort_data" ELSE "get_data"
                         /\ UNCHANGED <<stderr, exitStatus>>
    /\ UNCHANGED <<remote, net, connected, fetched, file>>

\* --------------------------------------------------------------- sort_data
\* a sorts no later than b: ascending, NaN last.
Before(a, b) == b.RTT = NaN \/ (a.RTT # NaN /\ a.RTT <= b.RTT)

Least(rows) == {r \in rows : \A q \in rows : Before(r, q)}

RECURSIVE Orderings(_)
Orderings(rows) ==
    IF rows = {} THEN {<<>>}
    ELSE UNION {{<<r>> \o s : s \in Orderings(rows \ {r})} : r \in Least(rows)}

\* A sort that leaves the frame as it is.
sort_values_unsorted(frame) == {frame}

\* A sort that drops the rows that carry the sentinel.
sort_values_drop(frame) ==
    Orderings({frame[k] : k \in {j \in 1..Len(frame) : frame[j].RTT # Sentinel}})

\* df.sort_values(by=['RTT']) with the default kind='quicksort', which is
\* not a stable sort: any ascending order of the rows can come out.
sort_values(frame) == Orderings({frame[k] : k \in 1..Len(frame)})

sort_data ==
    /\ pc = "sort_data"
    /\ df' \in sort_values(df)
    /\ pc' = "save_topo_file"
    /\ UNCHANGED <<remote, net, connected, fetched, probes, stdout, stderr, file, exitStatus>>

\* ---------------------------------------------- main, lines 194-198
\* A slice that includes position n.
iloc_inclusive(frame, n) == SubSeq(frame, 1, IF Len(frame) < n + 1 THEN Len(frame) ELSE n + 1)

\* frame.iloc[:n]
iloc(frame, n) == SubSeq(frame, 1, IF Len(frame) < n THEN Len(frame) ELSE n)

Entry(row) == [addr |-> row.addr, port |-> row.port, valency |-> 1]

save_topo_file ==
    /\ pc = "save_topo_file"
    /\ LET head == iloc(df, NB_ROWS)
       IN  /\ stdout' = stdout \o << <<"Sample of results", "">>, <<"print(df)", "">> >>
           /\ file' = [written |-> TRUE,
                       Producers |-> [k \in 1..Len(head) |-> Entry(head[k])]]
    /\ pc' = "done"
    /\ UNCHANGED <<remote, net, connected, df, fetched, probes, stderr, exitStatus>>

Next ==
    \/ is_connected_true
    \/ is_connected_false
    \/ get_dataframe_returns
    \/ get_dataframe_raises
    \/ get_data_row
    \/ sort_data
    \/ save_topo_file

Spec == Init /\ [][Next]_vars

TypeOK ==
    /\ pc \in {"main", "get_dataframe", "get_data", "sort_data", "save_topo_file", "done", "exit"}
    /\ connected \in {"unknown", "yes", "no"}
    /\ exitStatus \in {0, 1}
\* ------------------------------------------------------------------ helpers
Ranked == pc \in {"save_topo_file", "done"}
Measured == pc \in {"sort_data", "save_topo_file", "done"}
Fetched == pc \in {"get_data", "sort_data", "save_topo_file", "done"}

Pos(frame) == 1..Len(frame)
Failed(k) == probes[k].exc # "none"
DiagTags == {"refused", "NXDOMAIN OR timeout", "Unknown exception"}
Lines(tag) == {n \in DOMAIN stdout : stdout[n][1] = tag}
Min(a, b) == IF a < b THEN a ELSE b

\* C1: after sort_data, two endpoints with equal RTT keep the order they had
\* in the fetched list.
C1_SortStable ==
    Ranked => \A a, b \in Pos(df) :
                 (df[a].RTT = df[b].RTT /\ df[a].Index < df[b].Index) => a < b

\* C2: the frame held after get_data and sort_data has the length of the
\* fetched list and holds every fetched endpoint exactly once; only the
\* written file is shorter.
C2_Permutation ==
    Fetched =>
        /\ Len(df) = Len(remote.Producers)
        /\ Len(df) = Len(fetched)
        /\ \A k \in Pos(fetched) :
              Cardinality({j \in Pos(df) : /\ df[j].Index = fetched[k].Index
                                           /\ df[j].addr = fetched[k].addr
                                           /\ df[j].port = fetched[k].port}) = 1

C2_Witness ==
    /\ pc = "done"
    /\ Len(df) > NB_ROWS
    /\ df[1].Index # 0
    /\ \E k \in Pos(probes) : Failed(k)
    /\ Len(file.Producers) < Len(df)

\* C3: after sort_data every adjacent pair of the frame is in ascending RTT
\* order, and no failed probe precedes a successful probe of smaller latency.
C3_Monotonic ==
    Ranked =>
        /\ \A k \in Pos(df) : df[k].RTT # NaN
        /\ \A k \in 1..(Len(df) - 1) : df[k].RTT <= df[k + 1].RTT
        /\ \A a, b \in Pos(df) :
              (/\ a < b
               /\ Failed(df[a].Index + 1)
               /\ ~Failed(df[b].Index + 1)) => df[b].RTT >= df[a].RTT

C3_Witness ==
    /\ pc = "done"
    /\ Len(df) >= 3
    /\ Failed(1) /\ ~Failed(2) /\ ~Failed(3)
    /\ probes[3].d < probes[2].d
    /\ df[1].Index = 2 /\ df[2].Index = 1 /\ df[3].Index = 0

\* C4: a failed probe, whatever its exception, yields the sentinel and one
\* diagnostic line, leaves the endpoint in the frame with the sentinel as its
\* RTT, and never ends the run: the remaining endpoints are all probed.
C4_ProbeFailureHandled ==
    /\ \A k \in Pos(probes) :
          Failed(k) =>
             /\ probes[k].d = Sentinel
             /\ \E j \in Pos(df) : df[j].Index = probes[k].tuple /\ df[j].RTT = Sentinel
    /\ \A t \in DiagTags :
          Cardinality(Lines(t)) =
             Cardinality({k \in Pos(probes) :
                            Failed(k) /\ Diagnostic(ExceptClause(probes[k].exc)) = t})
    /\ (pc = "exit" => probes = <<>>)
    /\ (Measured => Len(probes) = Len(fetched))

C4_Witness ==
    /\ pc = "done"
    /\ Len(probes) = 3
    /\ probes[1].exc = "ConnectionRefusedError"
    /\ probes[2].exc = "TypeError"
    /\ probes[3].exc = "timeout"
    /\ \A j \in Pos(df) : df[j].RTT = Sentinel

C6_Non200IsFatal ==
    (remote.raises = "none" /\ remote.status # HTTP_OK) =>
        /\ probes = <<>>
        /\ ~file.written
        /\ ~Fetched

\* C7: a producer record without addr or without port is a fatal parse error:
\* the run aborts and the record is never ranked, probed or written.
C7_MalformedRecordIsFatal ==
    (/\ remote.raises = "none"
     /\ remote.status = HTTP_OK
     /\ remote.body = "topology"
     /\ \E n \in Pos(remote.Producers) : ~WellFormed(remote.Producers[n])) =>
        /\ probes = <<>>
        /\ ~file.written
        /\ ~Fetched

\* C8: a failed precheck writes the diagnostic to the error stream and ends
\* the run with a non-zero status before anything is fetched, probed or
\* written; a run that completes ends with status 0.
NoInternetMessage == <<"stderr.write", "No Internet access, please try again.">>

C8_PrecheckFailsFast ==
    /\ connected = "no" =>
          /\ pc = "exit"
          /\ exitStatus # 0
          /\ \E n \in DOMAIN stderr : stderr[n] = NoInternetMessage
          /\ df = <<>> /\ probes = <<>> /\ stdout = <<>> /\ ~file.written
    /\ pc = "done" => (connected = "yes" /\ exitStatus = 0)

\* C9: a document without the "Producers" field aborts the run before any
\* get_rtt call and before the output file is written.
C9_NoProducersAborts ==
    (remote.raises = "none" /\ remote.body = "object") =>
        /\ probes = <<>>
        /\ ~file.written
        /\ df = <<>>
        /\ pc \in {"main", "get_dataframe", "exit"}

C9_Witness ==
    /\ pc = "exit"
    /\ connected = "yes"
    /\ remote.raises = "none"
    /\ remote.body = "object"
    /\ remote.status = HTTP_OK
    /\ stderr = << <<"Traceback", "KeyError">> >>

\* C10: get_data probes the fetched endpoints one by one in input order, each
\* exactly once, and sets each endpoint's RTT once, to the result of its own
\* probe; all probes are done before sorting, and sorting and saving leave
\* every RTT as it was set.
C10_ProbeOnceInOrder ==
    /\ Len(probes) <= Len(fetched)
    /\ \A k \in Pos(probes) :
          /\ probes[k].tuple = k - 1
          /\ probes[k].label = k - 1
          /\ probes[k].host = fetched[k].addr
          /\ probes[k].port = fetched[k].port
    /\ \A j \in Pos(df) :
          df[j].RTT = IF df[j].Index < Len(probes)
                      THEN probes[df[j].Index + 1].d ELSE NaN
    /\ (Measured => Len(probes) = Len(fetched))

C10_Witness ==
    /\ pc = "done"
    /\ \E a, b \in Pos(df) :
          /\ df[a].Index < df[b].Index
          /\ df[a].addr = df[b].addr
          /\ df[a].port = df[b].port
          /\ df[a].RTT > df[b].RTT
          /\ b < a
====
